---- MODULE Spec2Model ----
(***************************************************************************)
(* Model of the dataset assembly of src/scraper/scrape.py: DataSet.from_raw *)
(* and the parsers it drives (_parse_destination_regions, _parse_rates,    *)
(* _parse_transport_details, _parse_hotel, _parse_room(s),                 *)
(* _cleanup_incomplete_hotels), and of the requests of its Scraper          *)
(* (_request, _get_rates).                                                 *)
(*                                                                         *)
(* Texts are sequences of one-character strings, so that the regular       *)
(* expressions, str.join, str.endswith and str.removesuffix are computed   *)
(* character by character as Python computes them.  A value that may be    *)
(* None is None or Some(v); a failed search is NoMatch.                     *)
(***************************************************************************)
EXTENDS Integers, Sequences, FiniteSets, TLC

VARIABLES
    pc,             \* where from_raw stands: "start", "regions_parsed", "rates" (in
                    \* the rate loop), "done" (returned), "raised"; where _request
                    \* ("post") and _get_rates ("loop") stand, "returned", "raised"
    section,        \* the section handed to _parse_room (SpecRoom)
    regions,        \* the region list handed to _parse_destination_regions
    countries,      \* DataSet.countries
    airports,       \* DataSet.airports
    flight_routes,  \* DataSet.flight_routes
    bus_stops,      \* DataSet.bus_stops
    bus_routes,     \* DataSet.bus_routes
    hotels,         \* DataSet.hotels
    meals,          \* DataSet.meals
    rates,          \* DataSet.rates
    raw,            \* the raw dataset: rates, transport_details, all_product_content
    heap,           \* the store of objects: address -> dict or list
    hist,           \* history of the calls made (what was passed, what was replaced)
    calls,          \* the number of calls or loop iterations made so far
    try_number,     \* Scraper._request: the loop variable
    resp,           \* Scraper._request: the status of the last response, if any
    sent,           \* the outcome of every POST made so far, in order
    slept,          \* the seconds of every time.sleep made so far, in order
    fetched,        \* Scraper._get_rates: the list "rates"
    rate_count,     \* Scraper._get_rates: rate_count
    page,           \* Scraper._get_rates: page
    queries         \* the variables of every rates query made so far, in order

vars == <<pc, section, regions, countries, airports, flight_routes, bus_stops,
          bus_routes, hotels, meals, rates, raw, heap, hist, calls,
          try_number, resp, sent, slept, fetched, rate_count, page, queries>>

\* the variables of the Scraper's requests
scraper == <<try_number, resp, sent, slept, fetched, rate_count, page, queries>>

\* the variables of the dataset assembly, pc apart
assembly == <<section, regions, countries, airports, flight_routes, bus_stops,
              bus_routes, hotels, meals, rates, raw, heap, hist, calls>>

-----------------------------------------------------------------------------
(* Bounds of the model *)

\* fragments per generated room text
MaxTokens == 3
\* items of a section's first list
MaxItems == 1

-----------------------------------------------------------------------------
(* Characters and generic helpers *)

Digits == {"0", "1", "2", "3", "4", "5", "6", "7", "8", "9"}

\* "oacute" stands for the single letter o-acute of "Pokoj" as the API spells it
Letters == {"P", "o", "k", "oacute", "j", "s", "b", "w", "y", "z", "d", "t",
            "n", "a", "r", "u", "i", "A", "B", "C", "W"}

\* \w of a Python 3 str pattern: letters, digits and the underscore
IsWord(c) == c \in Letters \cup Digits \cup {"_"}

\* \d
IsDigit(c) == c \in Digits

\* int() of one decimal digit
IntOfDigit(c) ==
    CASE c = "0" -> 0 [] c = "1" -> 1 [] c = "2" -> 2 [] c = "3" -> 3
      [] c = "4" -> 4 [] c = "5" -> 5 [] c = "6" -> 6 [] c = "7" -> 7
      [] c = "8" -> 8 [] c = "9" -> 9

\* s[k] with Python's 0-based index
At(s, k) == s[k + 1]

SetMax(S) == CHOOSE m \in S : \A n \in S : n <= m

SetMin(S) == CHOOSE m \in S : \A n \in S : m <= n

\* max(iterable, default=d)
MaxDefault(S, d) == IF S = {} THEN d ELSE SetMax(S)

Max2(a, b) == IF a >= b THEN a ELSE b

RECURSIVE Concat(_)
\* the texts of a sequence of texts, one after the other
Concat(ss) == IF ss = <<>> THEN <<>> ELSE Head(ss) \o Concat(Tail(ss))

\* a failed re search
NoMatch == <<>>

\* an optional value is None or Some(v)
None == <<>>

Some(v) == <<v>>

\* the v of Some(v)
The(o) == o[1]

\* the (start, end) span of the leftmost match of a pattern that consumes width
\* characters and matches at the 0-based indices starts, or NoMatch
LeftmostSpan(starts, width) ==
    IF starts = {} THEN NoMatch
    ELSE <<SetMin(starts), SetMin(starts) + width>>

-----------------------------------------------------------------------------
(* The room patterns, scrape.py lines 40-42 *)

\* a faulty variant: [ \-]os without the trailing \b
FirstSplitNoBoundary(s, pos) ==
    LeftmostSpan({k \in pos .. (Len(s) - 3) :
                    /\ At(s, k) \in {" ", "-"}
                    /\ At(s, k + 1) = "o"
                    /\ At(s, k + 2) = "s"}, 3)

\* ROOM_FIRST_SPLIT_PATTERN.search(s, pos): [ \-]os\b
ROOM_FIRST_SPLIT_PATTERN(s, pos) ==
    LeftmostSpan({k \in pos .. (Len(s) - 3) :
                    /\ At(s, k) \in {" ", "-"}
                    /\ At(s, k + 1) = "o"
                    /\ At(s, k + 2) = "s"
                    \* \b after the word character "s": the end of the text, or a
                    \* character that is not a word character
                    /\ (k + 3 = Len(s) \/ ~IsWord(At(s, k + 3)))}, 3)

\* a faulty variant: the search for [ \-]dost forgets its start position
SecondSplitFromStart(s, pos) ==
    LeftmostSpan({k \in 0 .. (Len(s) - 5) :
                    /\ At(s, k) \in {" ", "-"}
                    /\ At(s, k + 1) = "d"
                    /\ At(s, k + 2) = "o"
                    /\ At(s, k + 3) = "s"
                    /\ At(s, k + 4) = "t"}, 5)

\* ROOM_SECOND_SPLIT_PATTERN.search(s, pos): [ \-]dost
ROOM_SECOND_SPLIT_PATTERN(s, pos) ==
    LeftmostSpan({k \in pos .. (Len(s) - 5) :
                    /\ At(s, k) \in {" ", "-"}
                    /\ At(s, k + 1) = "d"
                    /\ At(s, k + 2) = "o"
                    /\ At(s, k + 3) = "s"
                    /\ At(s, k + 4) = "t"}, 5)

RECURSIVE RunValue(_, _, _)
\* the integer written by the digits s[lo:hi]
RunValue(s, lo, hi) ==
    IF hi <= lo THEN 0
    ELSE 10 * RunValue(s, lo, hi - 1) + IntOfDigit(At(s, hi - 1))

\* every maximal run of digits of s[pos:endpos], read as one integer
DigitRuns(s, pos, endpos) ==
    {RunValue(s, lo, hi) : <<lo, hi>> \in
        {p \in (pos .. endpos) \X (pos .. endpos) :
            /\ p[1] < p[2]
            /\ \A k \in p[1] .. (p[2] - 1) : IsDigit(At(s, k))
            /\ (p[1] = pos \/ ~IsDigit(At(s, p[1] - 1)))
            /\ (p[2] = endpos \/ ~IsDigit(At(s, p[2])))}}

\* a faulty variant: \d+ in place of \d
DigitRunsPattern(s, pos, endpos) == DigitRuns(s, pos, endpos)

\* {int(m.group()) for m in ROOM_DIGIT_PATTERN.finditer(s, pos, endpos)}: \d
\* matches one digit at a time
ROOM_DIGIT_PATTERN(s, pos, endpos) ==
    {IntOfDigit(At(s, k)) : k \in {j \in pos .. (endpos - 1) : IsDigit(At(s, j))}}

-----------------------------------------------------------------------------
(* DataSet._parse_room, scrape.py lines 253-307 *)

Room(title, bed_count, extra_bed_count) ==
    [title |-> title, bed_count |-> bed_count, extra_bed_count |-> extra_bed_count]

\* it = (section["title"], *section["lists"][0]["items"])
Candidates(sec) == <<sec.title>> \o sec.items

\* the counts the loop body computes for a candidate that holds the first pattern
RoomCounts(unstructured_info) ==
    LET match         == ROOM_FIRST_SPLIT_PATTERN(unstructured_info, 0)
        regular_start == match[1]
        regular_end   == match[2]
        bed_count     == Max2(1, MaxDefault(
                             ROOM_DIGIT_PATTERN(unstructured_info, 0, regular_start), 1))
        match2        == ROOM_SECOND_SPLIT_PATTERN(unstructured_info, regular_end)
        extra_start   == match2[1]
        extra_bed_count ==
            IF match2 = NoMatch THEN 0
            ELSE Max2(Max2(0, 1), MaxDefault(
                     ROOM_DIGIT_PATTERN(unstructured_info, regular_end, extra_start), 0))
    IN  <<bed_count, extra_bed_count>>

\* a faulty variant: the last candidate that holds the first pattern decides
ParseRoomLastCandidate(rooms, sec) ==
    LET it      == Candidates(sec)
        matched == {i \in 1 .. Len(it) : ROOM_FIRST_SPLIT_PATTERN(it[i], 0) # NoMatch}
    IN  IF matched = {} THEN rooms
        ELSE LET counts == RoomCounts(it[SetMax(matched)])
                 room   == Room(sec.title, counts[1], counts[2])
             IN  IF \E i \in 1 .. Len(rooms) : rooms[i] = room
                 THEN rooms
                 ELSE Append(rooms, room)

\* the rooms of the hotel after _parse_room(hotel, section)
ParseRoom(rooms, sec) ==
    LET it      == Candidates(sec)
        matched == {i \in 1 .. Len(it) : ROOM_FIRST_SPLIT_PATTERN(it[i], 0) # NoMatch}
    IN  IF matched = {} THEN rooms      \* the for loop's else: return
        ELSE LET counts == RoomCounts(it[SetMin(matched)])
                 room   == Room(sec.title, counts[1], counts[2])
             IN  IF \E i \in 1 .. Len(rooms) : rooms[i] = room
                 THEN rooms
                 ELSE Append(rooms, room)

-----------------------------------------------------------------------------
(* Values shared by the specifications *)

\* an empty dict
EmptyMap == [k \in {} |-> {}]

\* the Scraper before any request
ScraperIdle ==
    /\ try_number = 0
    /\ resp = None
    /\ sent = <<>>
    /\ slept = <<>>
    /\ fetched = <<>>
    /\ rate_count = 1
    /\ page = 0
    /\ queries = <<>>

\* d[k] = v
Put(d, k, v) == [x \in (DOMAIN d) \cup {k} |-> IF x = k THEN v ELSE d[x]]

Meal(identifier, title) == [identifier |-> identifier, title |-> title]

Hotel(title, hotel_rating, country_id, city_id, latitude, longitude) ==
    [title |-> title, hotel_rating |-> hotel_rating,
     destination_country_id |-> country_id, destination_city_id |-> city_id,
     latitude |-> latitude, longitude |-> longitude,
     meals |-> <<>>, rooms |-> <<>>]

\* the values of the variables a specification does not use
NoSection == [title |-> <<>>, items |-> <<>>]

-----------------------------------------------------------------------------
(* SpecRoom: one call of _parse_room on a hotel that has no room yet *)

\* "Pokoj 2-osobowy z 1 dost"
Pokoj2osobowy ==
    <<"P", "o", "k", "oacute", "j", " ", "2", "-", "o", "s", "o", "b", "o", "w", "y",
      " ", "z", " ", "1", " ", "d", "o", "s", "t">>

\* "Pokoj 2-os. z 1 dost"
Pokoj2os ==
    <<"P", "o", "k", "oacute", "j", " ", "2", "-", "o", "s", ".",
      " ", "z", " ", "1", " ", "d", "o", "s", "t">>

\* "Pokoj 3 os"
Pokoj3os == <<"P", "o", "k", "oacute", "j", " ", "3", " ", "o", "s">>

\* "2 os 10 dost"
Pokoj10dost == <<"2", " ", "o", "s", " ", "1", "0", " ", "d", "o", "s", "t">>

\* "2 os 0 dost"
Pokoj0dost == <<"2", " ", "o", "s", " ", "0", " ", "d", "o", "s", "t">>

SampleTexts == {Pokoj2osobowy, Pokoj2os, Pokoj3os, Pokoj10dost, Pokoj0dost}

\* the pieces the generated texts are made of
Fragments == {<<"0">>, <<"1">>, <<"2">>, <<" ", "o", "s">>, <<"-", "o", "s">>,
              <<" ", "d", "o", "s", "t">>, <<"o">>, <<".">>}

GeneratedTexts ==
    UNION {{Concat(fs) : fs \in [1 .. n -> Fragments]} : n \in 0 .. MaxTokens}

\* "3 os", "wc", "1 os 2 dost"
ItemTexts == {<<"3", " ", "o", "s">>, <<"w", "c">>,
              <<"1", " ", "o", "s", " ", "2", " ", "d", "o", "s", "t">>}

Sections ==
    {[title |-> t, items |-> it] :
        t \in GeneratedTexts \cup SampleTexts,
        it \in UNION {[1 .. n -> ItemTexts] : n \in 0 .. MaxItems}}

\* the hotel _parse_hotel hands to _parse_rooms: one meal, no room yet
FreshHotel ==
    [Hotel("H1", 40, <<"A">>, Some(<<"p", "1">>), 1, 2)
        EXCEPT !.meals = <<Meal("A", "All inclusive")>>]

InitRoom ==
    /\ pc = "start"
    /\ section \in Sections
    /\ hotels = [t \in {"H1"} |-> FreshHotel]
    /\ regions = None
    /\ countries = EmptyMap
    /\ airports = EmptyMap
    /\ flight_routes = EmptyMap
    /\ bus_stops = EmptyMap
    /\ bus_routes = EmptyMap
    /\ meals = EmptyMap
    /\ rates = EmptyMap
    /\ raw = EmptyMap
    /\ heap = EmptyMap
    /\ ScraperIdle
    /\ hist = None
    /\ calls = 0

\* self._parse_room(hotel, section)
ParseRoomCall ==
    /\ pc = "start"
    /\ hotels' = [hotels EXCEPT !["H1"].rooms = ParseRoom(@, section)]
    /\ pc' = "done"
    /\ calls' = calls + 1
    /\ UNCHANGED <<section, regions, countries, airports, flight_routes, bus_stops,
                   bus_routes, meals, rates, raw, heap, hist>>
    /\ UNCHANGED scraper

NextRoom == ParseRoomCall

SpecRoom == InitRoom /\ [][NextRoom]_vars

-----------------------------------------------------------------------------
(* Claims about _parse_room *)

\* the 0-based places of a text where a space or hyphen is followed by "os"
SepOsPlaces(s) ==
    {k \in 0 .. (Len(s) - 3) :
        At(s, k) \in {" ", "-"} /\ At(s, k + 1) = "o" /\ At(s, k + 2) = "s"}

\* those where the "os" ends a word
OccupancyPlaces(s) ==
    {k \in SepOsPlaces(s) : k + 3 = Len(s) \/ ~IsWord(At(s, k + 3))}

\* the 0-based places at or after from where a space or hyphen is followed by "dost"
ExtraBedPlaces(s, from) ==
    {k \in from .. (Len(s) - 5) :
        /\ At(s, k) \in {" ", "-"}
        /\ <<At(s, k + 1), At(s, k + 2), At(s, k + 3), At(s, k + 4)>>
               = <<"d", "o", "s", "t">>}

\* the single digits of s[lo:hi]
SingleDigits(s, lo, hi) ==
    {IntOfDigit(At(s, k)) : k \in {j \in lo .. (hi - 1) : At(s, j) \in Digits}}

HasOccupancy(sec) ==
    \E i \in 1 .. Len(Candidates(sec)) : OccupancyPlaces(Candidates(sec)[i]) # {}

\* the first candidate of the section that holds the occupancy marker
FirstMarked(sec) ==
    LET it == Candidates(sec)
    IN  it[SetMin({i \in 1 .. Len(it) : OccupancyPlaces(it[i]) # {}})]

\* where the occupancy marker starts in it
MarkerStart(s) == SetMin(OccupancyPlaces(s))

RoomsOfH1 == hotels["H1"].rooms

\* C4 as stated: the marker is recognised wherever a space or hyphen is followed by
\* "os", also inside "2-osobowy", so a section titled "Pokoj 2-osobowy z 1 dost"
\* gets a Room with bed_count 2 and extra_bed_count 1.
C4_Original ==
    (pc = "done" /\ section.title = Pokoj2osobowy)
        => \E i \in 1 .. Len(RoomsOfH1) : RoomsOfH1[i] = Room(Pokoj2osobowy, 2, 1)

\* C4 (amended): the occupancy marker is recognised only where a space or hyphen is
\* followed by "os" and that "os" ends a word (the text ends there or a non-word
\* character follows): a Room is appended exactly when some candidate holds such a
\* marker; a section titled "Pokoj 2-osobowy z 1 dost" whose items hold no marker
\* gets no Room, and one titled "Pokoj 2-os. z 1 dost" gets bed_count 2 and
\* extra_bed_count 1.
C4_MarkerEndsWord ==
    pc = "done" =>
        /\ (RoomsOfH1 # <<>>) <=> HasOccupancy(section)
        /\ (section.title = Pokoj2osobowy
              /\ \A i \in 1 .. Len(section.items) : OccupancyPlaces(section.items[i]) = {})
                => RoomsOfH1 = <<>>
        /\ section.title = Pokoj2os => RoomsOfH1 = <<Room(Pokoj2os, 2, 1)>>

C4_Witness ==
    /\ pc = "done"
    /\ section = [title |-> Pokoj2osobowy, items |-> <<>>]
    /\ RoomsOfH1 = <<>>

\* C5 as stated: bed_count is the largest integer among the runs of digits before
\* the marker ("12" counting as 12), 1 when there is none, and always >= 1.
C5_Original ==
    (pc = "done" /\ HasOccupancy(section)) =>
        LET s == FirstMarked(section)
        IN  /\ Len(RoomsOfH1) = 1
            /\ RoomsOfH1[1].bed_count = MaxDefault(DigitRuns(s, 0, MarkerStart(s)), 1)
            /\ RoomsOfH1[1].bed_count >= 1

\* C5 (amended): bed_count is the largest single digit that appears before the
\* marker in the first candidate holding the marker, and at least 1: it is 1 when no
\* digit, or only the digit 0, precedes the marker, and a run such as "12" counts as
\* its digits 1 and 2.
C5_BedCountIsMaxDigit ==
    (pc = "done" /\ HasOccupancy(section)) =>
        LET s == FirstMarked(section)
        IN  /\ Len(RoomsOfH1) = 1
            /\ RoomsOfH1[1].bed_count
                  = SetMax(SingleDigits(s, 0, MarkerStart(s)) \cup {1})
            /\ RoomsOfH1[1].bed_count >= 1

C5_Witness ==
    /\ pc = "done"
    /\ section.title = <<"1", "2", " ", "o", "s">>
    /\ Len(RoomsOfH1) = 1
    /\ RoomsOfH1[1].bed_count = 2

\* C6 as stated: extra_bed_count is 0 when no extra-bed marker follows the occupancy
\* marker in the candidate; otherwise it is the largest of the digit runs between
\* the two markers, and 1 when no digit stands between them.
C6_Original ==
    (pc = "done" /\ HasOccupancy(section)) =>
        LET s     == FirstMarked(section)
            after == MarkerStart(s) + 3
            extra == ExtraBedPlaces(s, after)
        IN  /\ Len(RoomsOfH1) = 1
            /\ RoomsOfH1[1].extra_bed_count =
                  IF extra = {} THEN 0
                  ELSE MaxDefault(DigitRuns(s, after, SetMin(extra)), 1)

\* C6 (amended): extra_bed_count is 0 when no extra-bed marker follows the occupancy
\* marker in the candidate ("Pokoj 3 os" gives 3 and 0); otherwise it is the largest
\* single digit between the two markers, and at least 1: it is 1 when no digit, or
\* only the digit 0, stands between them.
C6_ExtraIsMaxDigit ==
    (pc = "done" /\ HasOccupancy(section)) =>
        LET s     == FirstMarked(section)
            after == MarkerStart(s) + 3
            extra == ExtraBedPlaces(s, after)
        IN  /\ Len(RoomsOfH1) = 1
            /\ RoomsOfH1[1].extra_bed_count =
                  IF extra = {} THEN 0
                  ELSE SetMax(SingleDigits(s, after, SetMin(extra)) \cup {1})
            /\ section.title = Pokoj3os => RoomsOfH1 = <<Room(Pokoj3os, 3, 0)>>

C6_Witness ==
    /\ pc = "done"
    /\ section.title = Pokoj0dost
    /\ Len(RoomsOfH1) = 1
    /\ RoomsOfH1[1].extra_bed_count = 1

-----------------------------------------------------------------------------
(* DataSet._parse_destination_regions, scrape.py lines 171-184 *)

\* "-narty"
Narty == <<"-", "n", "a", "r", "t", "y">>

\* s.endswith(suffix)
EndsWith(s, suffix) ==
    /\ Len(s) >= Len(suffix)
    /\ SubSeq(s, Len(s) - Len(suffix) + 1, Len(s)) = suffix

\* s.removesuffix(suffix)
RemoveSuffix(s, suffix) ==
    IF suffix # <<>> /\ EndsWith(s, suffix)
    THEN SubSeq(s, 1, Len(s) - Len(suffix))
    ELSE s

Country(identifier, title) ==
    [identifier |-> identifier, title |-> title, cities |-> EmptyMap]

City(identifier, title) == [identifier |-> identifier, title |-> title]

\* a faulty variant: the first pass keeps the ski variants
CreatesCountryAlways(region) == region.type = "country"

\* the condition of the first loop, line 177
CreatesCountry(region) ==
    region.type = "country" /\ ~EndsWith(region.value, Narty)

RECURSIVE FirstPass(_, _)
\* the first loop over the regions, lines 176-178
FirstPass(cs, rs) ==
    IF rs = <<>> THEN cs
    ELSE FirstPass(IF CreatesCountry(Head(rs))
                   THEN Put(cs, Head(rs).value, Country(Head(rs).value, Head(rs).title))
                   ELSE cs,
                   Tail(rs))

RECURSIVE SecondPass(_, _)
\* the second loop, lines 180-184: the countries it leaves and whether the lookup
\* countries[...] raised KeyError on the way
SecondPass(cs, rs) ==
    IF rs = <<>> THEN [countries |-> cs, raised |-> FALSE]
    ELSE LET region == Head(rs)
             key    == RemoveSuffix(region.parent, Narty)
         IN  IF region.type # "province" THEN SecondPass(cs, Tail(rs))
             ELSE IF key \notin DOMAIN cs THEN [countries |-> cs, raised |-> TRUE]
             ELSE SecondPass(
                      [cs EXCEPT ![key].cities =
                          Put(@, region.value, City(region.value, region.title))],
                      Tail(rs))

-----------------------------------------------------------------------------
(* SpecRegions: one call of _parse_destination_regions *)

\* regions per list
MaxRegions == 3

IdA == <<"A">>

IdANarty == IdA \o Narty

IdANartyNarty == IdANarty \o Narty

IdB == <<"B">>

Region(type, value, title, parent) ==
    [type |-> type, value |-> value, title |-> title, parent |-> parent]

RegionValues ==
    {Region("country", IdA, "Austria", <<>>),
     Region("country", IdANarty, "Austria narty", <<>>),
     Region("country", IdB, "Bulgaria", <<>>),
     Region("continent", <<"E">>, "Europa", <<>>)}
    \cup {Region("province", v, "Province", par) :
             v \in {<<"p", "1">>, <<"p", "2">>},
             par \in {IdA, IdANarty, IdANartyNarty, IdB}}

RegionLists == UNION {[1 .. n -> RegionValues] : n \in 0 .. MaxRegions}

InitRegions ==
    /\ pc = "start"
    /\ regions \in {None} \cup {Some(l) : l \in RegionLists}
    /\ section = NoSection
    /\ hotels = EmptyMap
    /\ countries = EmptyMap
    /\ airports = EmptyMap
    /\ flight_routes = EmptyMap
    /\ bus_stops = EmptyMap
    /\ bus_routes = EmptyMap
    /\ meals = EmptyMap
    /\ rates = EmptyMap
    /\ raw = EmptyMap
    /\ heap = EmptyMap
    /\ ScraperIdle
    /\ hist = None
    /\ calls = 0

\* dataset._parse_destination_regions(raw_dataset.destination_regions)
ParseDestinationRegions ==
    /\ pc = "start"
    /\ IF regions = None
       THEN /\ pc' = "raised"                 \* raise TypeError()
            /\ countries' = countries
       ELSE LET out == SecondPass(FirstPass(countries, The(regions)), The(regions))
            IN  /\ countries' = out.countries
                /\ pc' = IF out.raised THEN "raised" ELSE "regions_parsed"
    /\ UNCHANGED <<section, regions, airports, flight_routes, bus_stops, bus_routes,
                   hotels, meals, rates, raw, heap, hist, calls>>
    /\ UNCHANGED scraper

NextRegions == ParseDestinationRegions

SpecRegions == InitRegions /\ [][NextRegions]_vars

\* the text ends with the six characters "-narty"
IsSkiVariant(s) ==
    /\ Len(s) >= 6
    /\ <<s[Len(s) - 5], s[Len(s) - 4], s[Len(s) - 3], s[Len(s) - 2], s[Len(s) - 1],
         s[Len(s)]>> = <<"-", "n", "a", "r", "t", "y">>

\* C9: after _parse_destination_regions succeeds, no key of countries ends with
\* "-narty", and every province whose parent is X-narty is a City, under its own
\* identifier, of the Country with identifier X.
C9_SkiVariantsFoldIntoBase ==
    pc = "regions_parsed" =>
        /\ \A k \in DOMAIN countries : ~IsSkiVariant(k) /\ countries[k].identifier = k
        /\ \A i \in 1 .. Len(The(regions)) :
              LET region == The(regions)[i]
              IN  (region.type = "province" /\ IsSkiVariant(region.parent)) =>
                    LET X == SubSeq(region.parent, 1, Len(region.parent) - 6)
                    IN  /\ X \in DOMAIN countries
                        /\ region.value \in DOMAIN countries[X].cities
                        /\ countries[X].cities[region.value].identifier = region.value

C9_Witness ==
    /\ pc = "regions_parsed"
    /\ \E i \in 1 .. Len(The(regions)) :
          /\ The(regions)[i].type = "province"
          /\ The(regions)[i].parent = IdANarty
          /\ The(regions)[i].value \in DOMAIN countries[IdA].cities
    /\ \E i \in 1 .. Len(The(regions)) :
          The(regions)[i].type = "country" /\ The(regions)[i].value = IdANarty

-----------------------------------------------------------------------------
(* Route.key and DataSet._parse_transport_details, scrape.py lines 82-86, 186-216 *)

RoutePoint(code, city) == [code |-> code, city |-> city]

Route(origin, via, destination) ==
    [origin |-> origin, via |-> via, destination |-> destination]

RECURSIVE Join(_, _)
\* sep.join(texts)
Join(sep, texts) ==
    IF texts = <<>> THEN <<>>
    ELSE IF Len(texts) = 1 THEN texts[1]
    ELSE texts[1] \o sep \o Join(sep, Tail(texts))

\* (self.origin, *self.via, self.destination)
Points(route) == <<route.origin>> \o route.via \o <<route.destination>>

\* a faulty variant: the key leaves out the via points
KeyWithoutVia(route) == Join(<<"-">>, <<route.origin.code, route.destination.code>>)

\* Route.key
Key(route) ==
    Join(<<"-">>, [i \in 1 .. Len(Points(route)) |-> Points(route)[i].code])

RECURSIVE PutPoints(_, _)
\* route_points[point.code] = point, for the points in order
PutPoints(route_points, points) ==
    IF points = <<>> THEN route_points
    ELSE PutPoints(Put(route_points, Head(points).code, Head(points)), Tail(points))

\* a faulty variant: an entry already in the map is kept (setdefault)
StoreRouteIfAbsent(routes, route) ==
    IF Key(route) \in DOMAIN routes THEN routes ELSE Put(routes, Key(route), route)

\* routes[route.key] = route
StoreRoute(routes, route) == Put(routes, Key(route), route)

\* the city label after lines 203-206; product_content is Some(content) here
Repaired(point, product_content) ==
    IF point.code = point.city
    THEN RoutePoint(point.code, The(product_content).country_title)
    ELSE point

\* _parse_transport_details(product_content, transport_details, routes, route_points):
\* the two maps afterwards, the Route stored (None when nothing was), and whether
\* the call raised (None["destination"] is a TypeError)
ParseTransportDetails(product_content, transport_details, routes, route_points) ==
    IF transport_details = None
    THEN [routes |-> routes, route_points |-> route_points, route |-> None,
          raised |-> FALSE]
    ELSE LET td     == The(transport_details)
             origin0 == RoutePoint(td.from.code, td.from.city)
             destination0 == RoutePoint(td.to.code, td.to.city)
             needs  == origin0.code = origin0.city
                          \/ destination0.code = destination0.city
         IN  IF needs /\ product_content = None
             THEN [routes |-> routes, route_points |-> route_points, route |-> None,
                   raised |-> TRUE]
             ELSE LET origin      == Repaired(origin0, product_content)
                      destination == Repaired(destination0, product_content)
                      via   == [i \in 1 .. Len(td.via) |->
                                    RoutePoint(td.via[i].code, td.via[i].city)]
                      route == Route(origin, via, destination)
                  IN  [routes |-> StoreRoute(routes, route),
                       route_points |->
                           PutPoints(route_points, <<origin, destination>> \o via),
                       route |-> Some(route),
                       raised |-> FALSE]

-----------------------------------------------------------------------------
(* SpecRoutes: the loop over a rate's detailed segments, scrape.py lines 345-359 *)

\* detailed segments processed
MaxSegments == 3

CodeA == <<"A">>

CodeB == <<"B">>

CodeAB == <<"A", "-", "B">>

Warszawa == <<"W">>

TransportDetail(from, via, to) == [from |-> from, via |-> via, to |-> to]

\* A -> B with A's city unresolved; the same with the city given; "A-B" -> B, and
\* A -> B -> B with an unresolved via point (both have the key "A-B-B"); B -> A
\* with the destination's city unresolved
TransportDetailValues ==
    {TransportDetail(RoutePoint(CodeA, CodeA), <<>>, RoutePoint(CodeB, Warszawa)),
     TransportDetail(RoutePoint(CodeA, Warszawa), <<>>, RoutePoint(CodeB, Warszawa)),
     TransportDetail(RoutePoint(CodeAB, Warszawa), <<>>, RoutePoint(CodeB, Warszawa)),
     TransportDetail(RoutePoint(CodeA, Warszawa), <<RoutePoint(CodeB, CodeB)>>,
                     RoutePoint(CodeB, Warszawa)),
     TransportDetail(RoutePoint(CodeB, Warszawa), <<>>, RoutePoint(CodeA, CodeA))}

DetailedSegment(type, transportDetails) ==
    [type |-> type, transportDetails |-> transportDetails]

DetailedSegmentValues ==
    {DetailedSegment(type, td) :
        type \in {"flight", "bus"},
        td \in {None} \cup {Some(d) : d \in TransportDetailValues}}
    \cup {DetailedSegment("hotel", None)}

\* what the code reads of a product content: the destination country's title and
\* the descriptions, each with an id and its sections
ProductContent(country_title, descriptions) ==
    [country_title |-> country_title, descriptions |-> descriptions]

RouteProductContents ==
    {None, Some(ProductContent(<<"X">>, <<>>)), Some(ProductContent(<<"Y">>, <<>>))}

InitRoutes ==
    /\ pc = "rates"
    /\ regions = None
    /\ section = NoSection
    /\ hotels = EmptyMap
    /\ countries = EmptyMap
    /\ airports = EmptyMap
    /\ flight_routes = EmptyMap
    /\ bus_stops = EmptyMap
    /\ bus_routes = EmptyMap
    /\ meals = EmptyMap
    /\ rates = EmptyMap
    /\ raw = EmptyMap
    /\ heap = EmptyMap
    /\ ScraperIdle
    /\ hist = None
    /\ calls = 0

\* the four route maps of the dataset
RouteMaps ==
    [flight_routes |-> flight_routes, airports |-> airports,
     bus_routes |-> bus_routes, bus_stops |-> bus_stops]

\* a faulty variant: the points of a bus route are written to the airports
DispatchSegmentOnePointMap(t, product_content, segment) ==
    IF segment.type = "flight"
    THEN LET out == ParseTransportDetails(product_content, segment.transportDetails,
                                          t.flight_routes, t.airports)
         IN  [flight_routes |-> out.routes, airports |-> out.route_points,
              bus_routes |-> t.bus_routes, bus_stops |-> t.bus_stops,
              route |-> out.route, raised |-> out.raised]
    ELSE IF segment.type = "bus"
    THEN LET out == ParseTransportDetails(product_content, segment.transportDetails,
                                          t.bus_routes, t.airports)
         IN  [flight_routes |-> t.flight_routes, airports |-> out.route_points,
              bus_routes |-> out.routes, bus_stops |-> t.bus_stops,
              route |-> out.route, raised |-> out.raised]
    ELSE [flight_routes |-> t.flight_routes, airports |-> t.airports,
          bus_routes |-> t.bus_routes, bus_stops |-> t.bus_stops,
          route |-> None, raised |-> FALSE]

\* the body of "for segment in detailed_segments or []", lines 346-359, on the
\* route maps t: the maps afterwards, the Route stored and whether the call raised
DispatchSegment(t, product_content, segment) ==
    IF segment.type = "flight"
    THEN LET out == ParseTransportDetails(product_content, segment.transportDetails,
                                          t.flight_routes, t.airports)
         IN  [flight_routes |-> out.routes, airports |-> out.route_points,
              bus_routes |-> t.bus_routes, bus_stops |-> t.bus_stops,
              route |-> out.route, raised |-> out.raised]
    ELSE IF segment.type = "bus"
    THEN LET out == ParseTransportDetails(product_content, segment.transportDetails,
                                          t.bus_routes, t.bus_stops)
         IN  [flight_routes |-> t.flight_routes, airports |-> t.airports,
              bus_routes |-> out.routes, bus_stops |-> out.route_points,
              route |-> out.route, raised |-> out.raised]
    ELSE [flight_routes |-> t.flight_routes, airports |-> t.airports,
          bus_routes |-> t.bus_routes, bus_stops |-> t.bus_stops,
          route |-> None, raised |-> FALSE]

\* what a step leaves in hist: the segment's type, the route map of that type before
\* the call, the Route the call stored, and the call's transport details and
\* product content
Ingested(type, routes, route, detail, product_content) ==
    Some([type |-> type, routes |-> routes, route |-> route, detail |-> detail,
          product_content |-> product_content])

\* one iteration of "for segment in detailed_segments or []"
ParseDetailedSegment ==
    /\ pc = "rates"
    /\ calls < MaxSegments
    /\ calls' = calls + 1
    /\ \E segment \in DetailedSegmentValues, product_content \in RouteProductContents :
          LET out == DispatchSegment(RouteMaps, product_content, segment)
          IN  /\ flight_routes' = out.flight_routes
              /\ airports' = out.airports
              /\ bus_routes' = out.bus_routes
              /\ bus_stops' = out.bus_stops
              /\ pc' = IF out.raised THEN "raised" ELSE "rates"
              /\ hist' = IF out.route = None THEN None
                         ELSE Ingested(segment.type,
                                       IF segment.type = "flight" THEN flight_routes
                                       ELSE bus_routes,
                                       The(out.route), The(segment.transportDetails),
                                       product_content)
    /\ UNCHANGED <<section, regions, countries, hotels, meals, rates, raw, heap>>
    /\ UNCHANGED scraper

NextRoutes == ParseDetailedSegment

SpecRoutes == InitRoutes /\ [][NextRoutes]_vars

-----------------------------------------------------------------------------
(* Claims about the routes *)

\* the codes of a Route in order: origin, via..., destination
CodeSequence(route) ==
    <<route.origin.code>>
        \o [i \in 1 .. Len(route.via) |-> route.via[i].code]
        \o <<route.destination.code>>

RECURSIVE HyphenJoined(_)
\* the codes written one after the other with a hyphen between neighbours
HyphenJoined(codes) ==
    IF Len(codes) = 1 THEN codes[1]
    ELSE HyphenJoined(SubSeq(codes, 1, Len(codes) - 1)) \o <<"-">> \o codes[Len(codes)]

\* the route map of the type the last step wrote to
RoutesOfType(type) == IF type = "flight" THEN flight_routes ELSE bus_routes

\* C7: a Route's key is a function of its ordered code sequence alone (two records
\* with the same codes get the same key); ingesting a record whose key is already
\* in the map of its type leaves the number of entries unchanged (a new key adds
\* one); and every key of a route map is the hyphen-joined codes of the Route
\* stored under it.
C7_KeyIsJoinedCodes ==
    /\ \A k \in DOMAIN flight_routes : k = HyphenJoined(CodeSequence(flight_routes[k]))
    /\ \A k \in DOMAIN bus_routes : k = HyphenJoined(CodeSequence(bus_routes[k]))
    /\ hist # None =>
          LET h      == The(hist)
              k      == HyphenJoined(CodeSequence(h.route))
              after  == RoutesOfType(h.type)
          IN  /\ k \in DOMAIN after
              /\ after[k] = h.route
              /\ Cardinality(DOMAIN after) =
                    Cardinality(DOMAIN h.routes) + (IF k \in DOMAIN h.routes THEN 0 ELSE 1)
              /\ \A j \in DOMAIN h.routes : j # k => after[j] = h.routes[j]

\* a record is ingested again with the same codes, via point included
C7_Witness ==
    /\ hist # None
    /\ The(hist).type = "flight"
    /\ The(hist).route.via # <<>>
    /\ \E k \in DOMAIN The(hist).routes :
          CodeSequence(The(hist).routes[k]) = CodeSequence(The(hist).route)
    /\ Cardinality(DOMAIN flight_routes) = Cardinality(DOMAIN The(hist).routes)

\* the Route the last step replaced, if it replaced one
Replaced ==
    IF hist # None /\ HyphenJoined(CodeSequence(The(hist).route)) \in DOMAIN The(hist).routes
    THEN Some(The(hist).routes[HyphenJoined(CodeSequence(The(hist).route))])
    ELSE None

\* C8 as stated: a Route that overwrites an entry is value-equal to the Route it
\* replaces, city labels included.
C8_Original == Replaced # None => The(Replaced) = The(hist).route

HyphenFree(route) ==
    \A i \in 1 .. Len(CodeSequence(route)) :
        \A j \in 1 .. Len(CodeSequence(route)[i]) : CodeSequence(route)[i][j] # "-"

\* C8 (amended): a Route that overwrites an entry has the same hyphen-joined code
\* string as the Route it replaces, and the same ordered codes when no code of
\* either holds a hyphen; its city labels may differ, and the new Route is the one
\* the map holds afterwards (last write wins), so the final contents can depend on
\* the order in which the rates are processed.
C8_OverwriteKeepsCodes ==
    Replaced # None =>
        LET old == The(Replaced)
            new == The(hist).route
        IN  /\ HyphenJoined(CodeSequence(old)) = HyphenJoined(CodeSequence(new))
            /\ (HyphenFree(old) /\ HyphenFree(new))
                  => CodeSequence(old) = CodeSequence(new)
            /\ RoutesOfType(The(hist).type)[HyphenJoined(CodeSequence(new))] = new

\* an overwrite by a Route with the same codes and another city label
C8_Witness ==
    /\ Replaced # None
    /\ CodeSequence(The(Replaced)) = CodeSequence(The(hist).route)
    /\ The(Replaced).origin.city # The(hist).route.origin.city
    /\ RoutesOfType(The(hist).type)[HyphenJoined(CodeSequence(The(hist).route))]
          = The(hist).route

\* the RoutePoints the last call built, as its transport details give them: origin,
\* via..., destination
SourcePoints ==
    LET d == The(hist).detail
    IN  <<RoutePoint(d.from.code, d.from.city)>>
            \o [i \in 1 .. Len(d.via) |-> RoutePoint(d.via[i].code, d.via[i].city)]
            \o <<RoutePoint(d.to.code, d.to.city)>>

\* a source point after the repair the claim describes; a point without a label
\* when its label is its code and there is no product content to take the title from
WithRepair(point) ==
    IF point.code # point.city THEN point
    ELSE IF The(hist).product_content = None THEN [code |-> point.code]
    ELSE RoutePoint(point.code, The(The(hist).product_content).country_title)

\* the route-point map of the type the last step wrote to
PointsOfType(type) == IF type = "flight" THEN airports ELSE bus_stops

\* C14 as stated: after a call of _parse_transport_details that stored a Route, the
\* Route's origin, via points and destination are the source points with every label
\* that equals its code replaced by the destination country's title, and the
\* route-point map holds such a repaired point under each of their codes.
C14_Original ==
    hist # None =>
        LET src    == SourcePoints
            stored == <<The(hist).route.origin>> \o The(hist).route.via
                         \o <<The(hist).route.destination>>
        IN  \A i \in 1 .. Len(src) :
               /\ stored[i] = WithRepair(src[i])
               /\ src[i].code \in DOMAIN PointsOfType(The(hist).type)
               /\ PointsOfType(The(hist).type)[src[i].code] \in
                      {WithRepair(src[j]) : j \in {k \in 1 .. Len(src) :
                                                     src[k].code = src[i].code}}

\* every code of every Route of routes is a key of route_points, and every
\* RoutePoint of route_points is stored under its code
PointsCoverRoutes(routes, route_points) ==
    /\ \A k \in DOMAIN routes :
          \A i \in 1 .. Len(CodeSequence(routes[k])) :
              CodeSequence(routes[k])[i] \in DOMAIN route_points
    /\ \A c \in DOMAIN route_points : route_points[c].code = c

\* C19: in every state, the codes of every Route of flight_routes are keys of
\* airports and those of every Route of bus_routes are keys of bus_stops, and a
\* RoutePoint is stored under its code; a step for a flight segment leaves bus_routes
\* and bus_stops unchanged, a step for a bus segment leaves flight_routes and
\* airports unchanged, and a step that stores no Route leaves all four unchanged.
C19_RoutePointsCoverRoutes ==
    /\ [](PointsCoverRoutes(flight_routes, airports)
             /\ PointsCoverRoutes(bus_routes, bus_stops))
    /\ [][/\ (hist' # None /\ The(hist').type = "flight")
                => (bus_routes' = bus_routes /\ bus_stops' = bus_stops)
          /\ (hist' # None /\ The(hist').type = "bus")
                => (flight_routes' = flight_routes /\ airports' = airports)
          /\ hist' = None => RouteMaps' = RouteMaps]_vars

\* a bus segment was handled after a flight with a via point was stored: both kinds
\* of map are filled
C19_Witness ==
    /\ hist # None
    /\ The(hist).type = "bus"
    /\ The(hist).route.via # <<>>
    /\ \E k \in DOMAIN flight_routes : flight_routes[k].via # <<>>
    /\ DOMAIN airports = {CodeA, CodeB}
    /\ DOMAIN bus_stops = {CodeA, CodeB}

-----------------------------------------------------------------------------
(* DataSet._parse_hotel and DataSet._parse_rooms, scrape.py lines 218-251, 309-314 *)

\* meal in ms
MealIn(meal, ms) == \E i \in 1 .. Len(ms) : ms[i] = meal

\* a faulty variant: every meal is appended
AppendMealAlways(ms, meal) == Append(ms, meal)

\* a faulty variant: a meal counts as present when its identifier is
AppendMealById(ms, meal) ==
    IF \E i \in 1 .. Len(ms) : ms[i].identifier = meal.identifier
    THEN ms ELSE Append(ms, meal)

\* if meal not in hotel.meals: hotel.meals.append(meal)
AppendMeal(ms, meal) == IF MealIn(meal, ms) THEN ms ELSE Append(ms, meal)

\* a faulty variant: the entry is written whether or not the key is there
SetAlways(d, k, v) == Put(d, k, v)

\* the dict after d.setdefault(k, v)
SetDefault(d, k, v) == IF k \in DOMAIN d THEN d ELSE Put(d, k, v)

\* _parse_hotel(segment): the hotels and meals afterwards and the title of the
\* Hotel returned (None for a segment without geolocation)
ParseHotel(hs, ms, segment) ==
    LET content      == segment.content
        title        == content.title
        hotel_rating == content.hotelRating
        destination_country_id == RemoveSuffix(content.destinations.country.id, Narty)
        destination_city_id ==
            IF content.destinations.province = None THEN None
            ELSE Some(The(content.destinations.province).id)
        geolocation  == content.geolocation
    IN  IF geolocation = None
        THEN [hotels |-> hs, meals |-> ms, hotel |-> None]
        ELSE LET created == Hotel(title, hotel_rating, destination_country_id,
                                  destination_city_id, The(geolocation).lat,
                                  The(geolocation).lng)
                 \* self.hotels.setdefault(title, Hotel(...))
                 hs1  == SetDefault(hs, title, created)
                 meal == Meal(segment.meal.id, segment.meal.title)
             IN  [hotels |-> [hs1 EXCEPT ![title].meals = AppendMeal(@, meal)],
                  meals  |-> Put(ms, meal.identifier, meal),
                  hotel  |-> Some(title)]

RECURSIVE ParseSections(_, _)
\* for section in description["sections"]: self._parse_room(hotel, section)
ParseSections(rooms, sections) ==
    IF sections = <<>> THEN rooms
    ELSE ParseSections(ParseRoom(rooms, Head(sections)), Tail(sections))

RECURSIVE ParseRooms(_, _)
\* _parse_rooms(hotel, product_content), on the hotel's rooms and the descriptions
ParseRooms(rooms, descriptions) ==
    IF descriptions = <<>> THEN rooms
    ELSE ParseRooms(IF Head(descriptions).id # "rooms" THEN rooms
                    ELSE ParseSections(rooms, Head(descriptions).sections),
                    Tail(descriptions))

-----------------------------------------------------------------------------
(* SpecCalls: any sequence of _parse_hotel and _parse_room calls on one dataset *)

\* calls made on the dataset
MaxCalls == 4

Geolocation(lat, lng) == [lat |-> lat, lng |-> lng]

HotelSegment(title, hotelRating, country, province, geolocation, meal) ==
    [type |-> "hotel",
     content |-> [title |-> title, hotelRating |-> hotelRating,
                  destinations |-> [country |-> [id |-> country], province |-> province],
                  geolocation |-> geolocation],
     meal |-> [id |-> meal.identifier, title |-> meal.title]]

ProvinceP1 == Some([id |-> <<"p", "1">>])

\* two meals with the identifier "A" and different titles, and a third
MealA == Meal("A", "All inclusive")

MealA24 == Meal("A", "All inclusive 24h")

MealB == Meal("B", "Sniadania")

HotelSegmentValues ==
    {HotelSegment("H1", 40, IdA, ProvinceP1, Some(Geolocation(1, 2)), MealA),
     HotelSegment("H1", 40, IdA, ProvinceP1, Some(Geolocation(1, 2)), MealB),
     HotelSegment("H1", 35, IdANarty, None, Some(Geolocation(3, 4)), MealA24),
     HotelSegment("H1", 40, IdA, ProvinceP1, None, MealB),
     HotelSegment("H2", 30, IdB, None, Some(Geolocation(5, 6)), MealA),
     HotelSegment("H2", 30, IdB, None, None, MealB)}

Section(title, items) == [title |-> title, items |-> items]

\* the item "1 os 2 dost"
Item1os2dost == <<"1", " ", "o", "s", " ", "2", " ", "d", "o", "s", "t">>

\* "Pokoj 3 os", alone and with the item "1 os 2 dost"; "Pokoj 2-osobowy z 1 dost"
\* with the items "3 os", and with "1 os 2 dost"; "wc"
CallSections ==
    {Section(Pokoj3os, <<>>),
     Section(Pokoj3os, <<Item1os2dost>>),
     Section(Pokoj2osobowy, << <<"3", " ", "o", "s">> >>),
     Section(Pokoj2osobowy, << <<"1", " ", "o", "s", " ", "2", " ", "d", "o", "s", "t">> >>),
     Section(<<"w", "c">>, <<>>)}

InitCalls ==
    /\ pc = "rates"
    /\ regions = None
    /\ section = NoSection
    /\ hotels = EmptyMap
    /\ countries = EmptyMap
    /\ airports = EmptyMap
    /\ flight_routes = EmptyMap
    /\ bus_stops = EmptyMap
    /\ bus_routes = EmptyMap
    /\ meals = EmptyMap
    /\ rates = EmptyMap
    /\ raw = EmptyMap
    /\ heap = EmptyMap
    /\ ScraperIdle
    /\ hist = <<>>
    /\ calls = 0

\* hotel = self._parse_hotel(segment); hist keeps the segments passed and, for a
\* _parse_room call, the hotel's title and the section
ParseHotelCall ==
    /\ calls < MaxCalls
    /\ \E segment \in HotelSegmentValues :
          LET out == ParseHotel(hotels, meals, segment)
          IN  /\ hotels' = out.hotels
              /\ meals' = out.meals
              /\ hist' = Append(hist, segment)
    /\ calls' = calls + 1
    /\ UNCHANGED <<pc, section, regions, countries, airports, flight_routes, bus_stops,
                   bus_routes, rates, raw, heap>>
    /\ UNCHANGED scraper

\* self._parse_room(hotel, section) on a Hotel of the dataset
ParseRoomOfHotel ==
    /\ calls < MaxCalls
    /\ \E title \in DOMAIN hotels, sec \in CallSections :
          /\ hotels' = [hotels EXCEPT ![title].rooms = ParseRoom(@, sec)]
          /\ hist' = Append(hist, [type |-> "room", title |-> title, section |-> sec])
    /\ calls' = calls + 1
    /\ UNCHANGED <<pc, section, regions, countries, airports, flight_routes, bus_stops,
                   bus_routes, meals, rates, raw, heap>>
    /\ UNCHANGED scraper

NextCalls == ParseHotelCall \/ ParseRoomOfHotel

SpecCalls == InitCalls /\ [][NextCalls]_vars

-----------------------------------------------------------------------------
(* Claims about the hotels *)

\* C2: in every state reached by _parse_hotel and _parse_room calls, no Hotel's
\* meal list holds two Meals equal in (identifier, title) and no Hotel's room list
\* holds two Rooms equal in (title, bed_count, extra_bed_count).
C2_NoValueEqualEntries ==
    \A t \in DOMAIN hotels :
        /\ \A i, j \in 1 .. Len(hotels[t].meals) :
              (/\ hotels[t].meals[i].identifier = hotels[t].meals[j].identifier
               /\ hotels[t].meals[i].title = hotels[t].meals[j].title) => i = j
        /\ \A i, j \in 1 .. Len(hotels[t].rooms) :
              (/\ hotels[t].rooms[i].title = hotels[t].rooms[j].title
               /\ hotels[t].rooms[i].bed_count = hotels[t].rooms[j].bed_count
               /\ hotels[t].rooms[i].extra_bed_count = hotels[t].rooms[j].extra_bed_count)
                 => i = j

\* a meal and a room were offered twice to a Hotel that holds each once
C2_Witness ==
    /\ Len(hist) = 4
    /\ hist[1].type = "hotel" /\ hist[2].type = "hotel"
    /\ hist[1].content.title = "H1" /\ hist[2].content.title = "H1"
    /\ hist[1].meal = hist[2].meal
    /\ hist[3].type = "room" /\ hist[4].type = "room"
    /\ hist[3].title = "H1" /\ hist[4].title = "H1"
    /\ hist[3].section = hist[4].section
    /\ Len(hotels["H1"].meals) = 1
    /\ Len(hotels["H1"].rooms) = 1

RECURSIVE FirstAppearances(_)
\* a sequence without the repetitions of its earlier members
FirstAppearances(seq) ==
    IF seq = <<>> THEN <<>>
    ELSE LET before == FirstAppearances(SubSeq(seq, 1, Len(seq) - 1))
             last   == seq[Len(seq)]
         IN  IF \E i \in 1 .. Len(before) : before[i] = last THEN before
             ELSE Append(before, last)

\* the places of hist whose segment has geolocation and the title T
IngestedFor(T) ==
    {i \in 1 .. Len(hist) :
        /\ hist[i].type = "hotel"
        /\ hist[i].content.geolocation # None
        /\ hist[i].content.title = T}

RECURSIVE MealsFrom(_, _)
\* the (identifier, title) meals of the segments at the places of I from k on, in order
MealsFrom(I, k) ==
    IF k > Len(hist) THEN <<>>
    ELSE (IF k \in I THEN <<Meal(hist[k].meal.id, hist[k].meal.title)>> ELSE <<>>)
            \o MealsFrom(I, k + 1)

\* C3: after any sequence of segments ingested by _parse_hotel, the Hotels are those
\* titled as a segment with geolocation, and the meal list of the Hotel titled T is
\* the distinct (identifier, title) meals of the segments titled T that have
\* geolocation, in order of first appearance.
C3_MealsAreUnionInOrder ==
    /\ DOMAIN hotels = {T \in {"H1", "H2"} : IngestedFor(T) # {}}
    /\ \A T \in DOMAIN hotels :
          hotels[T].meals = FirstAppearances(MealsFrom(IngestedFor(T), 1))

\* three segments titled H1: two meals that share an identifier, and one repeated
C3_Witness ==
    /\ Len(hist) = 3
    /\ IngestedFor("H1") = {1, 2, 3}
    /\ "H1" \in DOMAIN hotels
    /\ hotels["H1"].meals = <<MealA, MealA24>>
    /\ hist[3].meal.title = MealA.title

\* the call the step made, as hist' records it
LastCall == hist'[Len(hist')]

\* C15: a Hotel of the map stays in the map with its hotel_rating,
\* destination_country_id, destination_city_id, latitude and longitude unchanged by
\* every later call, whatever the segment carries; a _parse_hotel call leaves the
\* Hotels of other titles and every room list as they are, and the meal list of a
\* Hotel keeps its entries in place and grows by at most one Meal.
C15_FirstWriterWins ==
    [][\A T \in DOMAIN hotels :
          /\ T \in DOMAIN hotels'
          /\ hotels'[T].title = hotels[T].title
          /\ hotels'[T].hotel_rating = hotels[T].hotel_rating
          /\ hotels'[T].destination_country_id = hotels[T].destination_country_id
          /\ hotels'[T].destination_city_id = hotels[T].destination_city_id
          /\ hotels'[T].latitude = hotels[T].latitude
          /\ hotels'[T].longitude = hotels[T].longitude
          /\ LastCall.type = "hotel" =>
                /\ hotels'[T].rooms = hotels[T].rooms
                /\ Len(hotels'[T].meals) \in {Len(hotels[T].meals), Len(hotels[T].meals) + 1}
                /\ SubSeq(hotels'[T].meals, 1, Len(hotels[T].meals)) = hotels[T].meals
                /\ LastCall.content.title # T => hotels'[T] = hotels[T]
      ]_vars

\* H1 was created from a segment with rating 40 at (1, 2) in country A, and a later
\* segment for H1 with rating 35 at (3, 4) in A-narty and no province only added
\* its meal
C15_Witness ==
    /\ Len(hist) = 2
    /\ hist[1] = HotelSegment("H1", 40, IdA, ProvinceP1, Some(Geolocation(1, 2)), MealB)
    /\ hist[2] = HotelSegment("H1", 35, IdANarty, None, Some(Geolocation(3, 4)), MealA24)
    /\ hotels["H1"].hotel_rating = 40
    /\ hotels["H1"].destination_city_id = Some(<<"p", "1">>)
    /\ hotels["H1"].latitude = 1
    /\ hotels["H1"].longitude = 2
    /\ hotels["H1"].meals = <<MealB, MealA24>>

\* the candidates of a section that hold the occupancy marker, by position
MarkedCandidates(sec) ==
    {i \in 1 .. Len(Candidates(sec)) : OccupancyPlaces(Candidates(sec)[i]) # {}}

\* the Room a section made of one candidate gives a hotel without rooms
RoomOfCandidate(candidate) == ParseRoom(<<>>, Section(candidate, <<>>))[1]

\* C16: a _parse_room call leaves every other Hotel as it is and the rooms already
\* listed in place, and appends at most one Room; with no candidate among (section
\* title, items of the first list) holding the occupancy marker the room list is
\* unchanged; otherwise the list afterwards holds a Room titled as the section whose
\* counts are those the first marked candidate gives on its own, whatever the later
\* candidates hold, and a Room appended is that Room.
C16_FirstMarkedCandidateDecides ==
    [][LastCall.type = "room" =>
          LET T     == LastCall.title
              sec   == LastCall.section
              old   == hotels[T].rooms
              new   == hotels'[T].rooms
          IN  /\ \A U \in DOMAIN hotels \ {T} : hotels'[U] = hotels[U]
              /\ Len(new) \in {Len(old), Len(old) + 1}
              /\ SubSeq(new, 1, Len(old)) = old
              /\ IF MarkedCandidates(sec) = {}
                 THEN new = old
                 ELSE LET first == Candidates(sec)[SetMin(MarkedCandidates(sec))]
                          room  == Room(sec.title, RoomOfCandidate(first).bed_count,
                                        RoomOfCandidate(first).extra_bed_count)
                      IN  /\ \E i \in 1 .. Len(new) : new[i] = room
                          /\ Len(new) = Len(old) + 1 => new[Len(new)] = room
      ]_vars

\* the section "Pokoj 3 os" with the item "1 os 2 dost" was parsed for a Hotel that
\* had a room: the Room appended has the title's counts, 3 and 0
C16_Witness ==
    /\ Len(hist) = 3
    /\ hist[2].type = "room"
    /\ hist[3].type = "room"
    /\ hist[3].section = Section(Pokoj3os, <<Item1os2dost>>)
    /\ Len(hotels[hist[3].title].rooms) = 2
    /\ hotels[hist[3].title].rooms[2] = Room(Pokoj3os, 3, 0)

-----------------------------------------------------------------------------
(* DataSet._parse_rates and DataSet._cleanup_incomplete_hotels, lines 316-376 *)

\* a raw rate, as far as the code reads it
Rate(id, segments) == [id |-> id, segments |-> segments]

\* the copy of a rate with the two keys lines 342-343 add
Augmented(rate, detailed_segments, product_content) ==
    [id |-> rate.id, segments |-> rate.segments,
     detailedSegments |-> detailed_segments, productContent |-> product_content]

\* the sequence "x or []" iterates over
OrEmpty(x) == IF x = None THEN <<>> ELSE The(x)

RECURSIVE ParseDetailedSegments(_, _, _)
\* "for segment in detailed_segments or []", lines 345-359, stopping where a call
\* raises: the route maps afterwards and whether one raised
ParseDetailedSegments(t, product_content, segments) ==
    IF segments = <<>>
    THEN [flight_routes |-> t.flight_routes, airports |-> t.airports,
          bus_routes |-> t.bus_routes, bus_stops |-> t.bus_stops, raised |-> FALSE]
    ELSE LET out == DispatchSegment(t, product_content, Head(segments))
         IN  IF out.raised
             THEN [flight_routes |-> out.flight_routes, airports |-> out.airports,
                   bus_routes |-> out.bus_routes, bus_stops |-> out.bus_stops,
                   raised |-> TRUE]
             ELSE ParseDetailedSegments(out, product_content, Tail(segments))

RECURSIVE ParseEveryHotelSegment(_, _, _)
\* a faulty variant: the loop has no break, every hotel segment is parsed
ParseEveryHotelSegment(hs, ms, segments) ==
    IF segments = <<>>
    THEN [hotels |-> hs, meals |-> ms, hotel |-> None, passed |-> <<>>]
    ELSE IF Head(segments).type # "hotel"
    THEN ParseEveryHotelSegment(hs, ms, Tail(segments))
    ELSE LET out  == ParseHotel(hs, ms, Head(segments))
             rest == ParseEveryHotelSegment(out.hotels, out.meals, Tail(segments))
         IN  [hotels |-> rest.hotels, meals |-> rest.meals,
              hotel  |-> IF rest.passed = <<>> THEN out.hotel ELSE rest.hotel,
              passed |-> <<Head(segments)>> \o rest.passed]

RECURSIVE ParseHotelSegments(_, _, _)
\* "for segment in rate["segments"] or []", lines 361-366: _parse_hotel on the hotel
\* segments in order until one returns a Hotel; passed are the segments handed to
\* _parse_hotel
ParseHotelSegments(hs, ms, segments) ==
    IF segments = <<>>
    THEN [hotels |-> hs, meals |-> ms, hotel |-> None, passed |-> <<>>]
    ELSE IF Head(segments).type # "hotel"
    THEN ParseHotelSegments(hs, ms, Tail(segments))
    ELSE LET out == ParseHotel(hs, ms, Head(segments))
         IN  IF out.hotel # None
             THEN [hotels |-> out.hotels, meals |-> out.meals, hotel |-> out.hotel,
                   passed |-> <<Head(segments)>>]
             ELSE LET rest == ParseHotelSegments(out.hotels, out.meals, Tail(segments))
                  IN  [rest EXCEPT !.passed = <<Head(segments)>> \o @]

\* a faulty variant: only the meal list is looked at
IsIncompleteByMeals(hotel) == hotel.meals = <<>>

\* not hotel.rooms or not hotel.meals
IsIncomplete(hotel) == hotel.rooms = <<>> \/ hotel.meals = <<>>

\* the hotels after _cleanup_incomplete_hotels()
Cleaned(hs) ==
    LET to_remove == {hs[t].title : t \in {k \in DOMAIN hs : IsIncomplete(hs[k])}}
    IN  [t \in (DOMAIN hs) \ to_remove |-> hs[t]]

-----------------------------------------------------------------------------
(* SpecAssemble: DataSet.from_raw on a raw dataset *)

\* rates of the raw dataset
MaxRates == 2

\* a segment of a rate that is no hotel segment
FlightSegment == [type |-> "flight"]

RoomsContent(title, sections) ==
    Some(ProductContent(title, <<[id |-> "location", sections |-> <<>>],
                                 [id |-> "rooms", sections |-> sections]>>))

\* a content whose rooms parse, and one whose only section holds no marker
ContentWithRooms ==
    RoomsContent(<<"X">>, <<Section(Pokoj3os, <<>>), Section(Pokoj2os, <<>>),
                            Section(Pokoj3os, <<>>)>>)

ContentWithoutRooms == RoomsContent(<<"Y">>, <<Section(<<"w", "c">>, <<>>)>>)

RawRateValues ==
    {Rate("r1", Some(<<FlightSegment,
                       HotelSegment("H1", 40, IdA, ProvinceP1, Some(Geolocation(1, 2)),
                                    MealA)>>)),
     Rate("r1", Some(<<HotelSegment("H1", 40, IdA, ProvinceP1, None, MealA),
                       HotelSegment("H1", 35, IdANarty, None, Some(Geolocation(3, 4)),
                                    MealB)>>)),
     Rate("r2", Some(<<HotelSegment("H2", 30, IdB, None, Some(Geolocation(5, 6)),
                                    MealA),
                       HotelSegment("H3", 35, IdA, None, Some(Geolocation(7, 8)),
                                    MealB)>>)),
     Rate("r2", Some(<<HotelSegment("H2", 30, IdB, None, None, MealB)>>)),
     Rate("r2", None)}

RawRateLists == UNION {[1 .. n -> RawRateValues] : n \in 0 .. MaxRates}

\* all_product_content: absent; for both rates; with null for r2; without r2
RawProductContents ==
    {None,
     Some([id \in {"r1", "r2"} |-> ContentWithRooms]),
     Some([id \in {"r1", "r2"} |->
              IF id = "r1" THEN ContentWithRooms ELSE ContentWithoutRooms]),
     Some([id \in {"r1", "r2"} |-> IF id = "r1" THEN ContentWithRooms ELSE None]),
     Some([id \in {"r1"} |-> ContentWithRooms])}

UnresolvedFlight ==
    DetailedSegment("flight",
        Some(TransportDetail(RoutePoint(CodeA, CodeA), <<>>, RoutePoint(CodeB, Warszawa))))

ResolvedBus ==
    DetailedSegment("bus",
        Some(TransportDetail(RoutePoint(CodeA, Warszawa), <<RoutePoint(CodeB, CodeB)>>,
                             RoutePoint(CodeB, Warszawa))))

\* transport_details: absent; empty; r1 with a flight and a bus and null for r2;
\* a flight that needs the repair for both
RawTransportDetails ==
    {None,
     Some(EmptyMap),
     Some([id \in {"r1", "r2"} |->
              IF id = "r1" THEN Some(<<UnresolvedFlight, ResolvedBus,
                                       DetailedSegment("hotel", None)>>)
              ELSE None]),
     Some([id \in {"r1", "r2"} |-> Some(<<UnresolvedFlight>>)])}

RawRegions ==
    {None,
     Some(<<Region("province", <<"p", "1">>, "Province", IdANarty),
            Region("country", IdA, "Austria", <<>>)>>)}

RawDataSet(rs, transport_details, all_product_content) ==
    [rates |-> rs, transport_details |-> transport_details,
     all_product_content |-> all_product_content]

InitAssemble ==
    /\ pc = "start"
    /\ regions \in RawRegions
    /\ raw \in {RawDataSet(rs, td, apc) :
                   rs \in {None} \cup {Some(l) : l \in RawRateLists},
                   td \in RawTransportDetails,
                   apc \in RawProductContents}
    /\ section = NoSection
    /\ hotels = EmptyMap
    /\ countries = EmptyMap
    /\ airports = EmptyMap
    /\ flight_routes = EmptyMap
    /\ bus_stops = EmptyMap
    /\ bus_routes = EmptyMap
    /\ meals = EmptyMap
    /\ rates = EmptyMap
    /\ heap = EmptyMap
    /\ ScraperIdle
    /\ hist = None
    /\ calls = 0

\* a faulty variant: only the rates are looked at
MissingInputRatesOnly(rs, transport_details, all_product_content) == rs = None

\* the condition of the three "is None" tests of lines 330-335
MissingInput(rs, transport_details, all_product_content) ==
    rs = None \/ transport_details = None \/ all_product_content = None

\* the check that opens _parse_rates, lines 330-335
ParseRatesEnter ==
    /\ pc = "regions_parsed"
    /\ pc' = IF MissingInput(raw.rates, raw.transport_details, raw.all_product_content)
             THEN "raised"                      \* raise TypeError()
             ELSE "rates"
    /\ UNCHANGED <<section, regions, countries, airports, flight_routes, bus_stops,
                   bus_routes, hotels, meals, rates, raw, heap, hist, calls>>
    /\ UNCHANGED scraper

\* one iteration of "for rate in raw_rates", lines 337-374; calls counts the
\* iterations made
ParseRate ==
    /\ pc = "rates"
    /\ calls < Len(The(raw.rates))
    /\ calls' = calls + 1
    /\ LET rate == The(raw.rates)[calls + 1]
           raw_transport_details == The(raw.transport_details)
           raw_all_product_content == The(raw.all_product_content)
           \* raw_transport_details.get(rate["id"])
           detailed_segments ==
               IF rate.id \in DOMAIN raw_transport_details
               THEN raw_transport_details[rate.id] ELSE None
       IN  IF rate.id \notin DOMAIN raw_all_product_content
           THEN \* raw_all_product_content[rate["id"]] raises KeyError; the copy is
                \* already in self.rates, without the two keys
                /\ rates' = Put(rates, rate.id, rate)
                /\ pc' = "raised"
                /\ UNCHANGED <<flight_routes, airports, bus_routes, bus_stops, hotels,
                               meals>>
           ELSE LET product_content == raw_all_product_content[rate.id]
                    routed == ParseDetailedSegments(RouteMaps, product_content,
                                                    OrEmpty(detailed_segments))
                    found  == ParseHotelSegments(hotels, meals, OrEmpty(rate.segments))
                IN  /\ rates' = Put(rates, rate.id,
                                    Augmented(rate, detailed_segments, product_content))
                    /\ flight_routes' = routed.flight_routes
                    /\ airports' = routed.airports
                    /\ bus_routes' = routed.bus_routes
                    /\ bus_stops' = routed.bus_stops
                    /\ IF routed.raised
                       THEN /\ pc' = "raised"
                            /\ UNCHANGED <<hotels, meals>>
                       ELSE /\ pc' = "rates"
                            /\ meals' = found.meals
                            /\ hotels' =
                                 IF found.hotel = None \/ product_content = None
                                 THEN found.hotels
                                 ELSE [found.hotels EXCEPT ![The(found.hotel)].rooms =
                                          ParseRooms(@, The(product_content).descriptions)]
    /\ UNCHANGED <<section, regions, countries, raw, heap, hist>>
    /\ UNCHANGED scraper

\* self._cleanup_incomplete_hotels() and the return of from_raw, once the loop has
\* ended; hist keeps the hotels the loop left
CleanupIncompleteHotels ==
    /\ pc = "rates"
    /\ calls = Len(The(raw.rates))
    /\ hist' = Some(hotels)
    /\ hotels' = Cleaned(hotels)
    /\ pc' = "done"
    /\ UNCHANGED <<section, regions, countries, airports, flight_routes, bus_stops,
                   bus_routes, meals, rates, raw, heap, calls>>
    /\ UNCHANGED scraper

NextAssemble ==
    \/ ParseDestinationRegions
    \/ ParseRatesEnter
    \/ ParseRate
    \/ CleanupIncompleteHotels

SpecAssemble == InitAssemble /\ [][NextAssemble]_vars

\* C1: after from_raw returns, every Hotel of the map has at least one Meal and at
\* least one Room, and every Hotel that had both when the rate loop ended is still
\* in the map, as it was.
C1_CleanupKeepsCompleteHotels ==
    pc = "done" =>
        /\ \A t \in DOMAIN hotels : Len(hotels[t].meals) >= 1 /\ Len(hotels[t].rooms) >= 1
        /\ \A t \in DOMAIN The(hist) :
              (Len(The(hist)[t].meals) >= 1 /\ Len(The(hist)[t].rooms) >= 1)
                 => (t \in DOMAIN hotels /\ hotels[t] = The(hist)[t])

\* from_raw returned after the loop left a Hotel with rooms and one without
C1_Witness ==
    /\ pc = "done"
    /\ DOMAIN The(hist) = {"H1", "H2"}
    /\ The(hist)["H2"].rooms = <<>>
    /\ The(hist)["H2"].meals # <<>>
    /\ DOMAIN hotels = {"H1"}
    /\ Len(hotels["H1"].rooms) = 2

\* one of the four raw collections is None
AnyAbsent ==
    \/ regions = None
    \/ raw.rates = None
    \/ raw.transport_details = None
    \/ raw.all_product_content = None

\* the dataset under construction holds no RoutePoint, Route, Hotel, Meal or Rate
NoRateEntity ==
    /\ airports = EmptyMap /\ bus_stops = EmptyMap
    /\ flight_routes = EmptyMap /\ bus_routes = EmptyMap
    /\ hotels = EmptyMap /\ meals = EmptyMap /\ rates = EmptyMap

\* C11 as stated: with one of the four raw collections absent, from_raw never enters
\* the rate loop nor returns, and the dataset under construction holds no entity at
\* all, up to and including the raise.
C11_Original ==
    AnyAbsent => /\ pc \notin {"rates", "done"}
                 /\ countries = EmptyMap
                 /\ NoRateEntity

\* C11: with one of the four raw collections absent, from_raw never enters the rate
\* loop nor returns a DataSet (it raises), and up to and including the raise no
\* RoutePoint, Route, Hotel, Meal or Rate exists; no Country or City exists when it is
\* the regions that are absent, while present regions are parsed before rates,
\* transport details and product content are tested.
C11_AbsentInputRaises ==
    AnyAbsent => /\ pc \notin {"rates", "done"}
                 /\ NoRateEntity
                 /\ (regions = None => countries = EmptyMap)

\* from_raw raised for absent transport details, after the regions gave a Country
\* with a City
C11_Witness ==
    /\ pc = "raised"
    /\ regions # None
    /\ raw.rates # None /\ raw.transport_details = None /\ raw.all_product_content # None
    /\ IdA \in DOMAIN countries
    /\ countries[IdA].cities # EmptyMap

\* the hotel segments of the rate the next iteration of the loop handles
HotelSegmentsOfRate ==
    SelectSeq(OrEmpty(The(raw.rates)[calls + 1].segments), LAMBDA s : s.type = "hotel")

\* an iteration of the rate loop that raises nothing
RateIterated == pc = "rates" /\ pc' = "rates" /\ calls' = calls + 1

\* what the iteration hands to _parse_hotel
PassedToParseHotel ==
    ParseHotelSegments(hotels, meals, OrEmpty(The(raw.rates)[calls + 1].segments)).passed

\* C12 as stated: an iteration of the rate loop hands _parse_hotel the first hotel
\* segment of the rate and no other, and the hotels' titles and the meals afterwards
\* are those of parsing that segment alone.
C12_Original ==
    [][RateIterated =>
          LET hs == HotelSegmentsOfRate
          IN  IF hs = <<>>
              THEN /\ PassedToParseHotel = <<>>
                   /\ DOMAIN hotels' = DOMAIN hotels /\ meals' = meals
              ELSE /\ PassedToParseHotel = <<hs[1]>>
                   /\ DOMAIN hotels' = DOMAIN ParseHotel(hotels, meals, hs[1]).hotels
                   /\ meals' = ParseHotel(hotels, meals, hs[1]).meals]_vars

\* C12: an iteration of the rate loop hands _parse_hotel the hotel segments of the
\* rate in order, up to and including the first one with a geolocation; that one is
\* the only segment ingested (its title is a Hotel afterwards, its Meal is in the
\* meal table and in the Hotel's list, and no other Hotel or Meal appears), the ones
\* before it are dropped without effect and the ones after it are never passed. With
\* no hotel segment that has a geolocation, hotels and meals stay as they are.
C12_FirstLocatedHotelSegment ==
    [][RateIterated =>
          LET hs == HotelSegmentsOfRate
              located == {i \in 1 .. Len(hs) : hs[i].content.geolocation # None}
          IN  IF located = {}
              THEN /\ PassedToParseHotel = hs
                   /\ hotels' = hotels /\ meals' = meals
              ELSE LET k == SetMin(located)
                       meal == Meal(hs[k].meal.id, hs[k].meal.title)
                   IN  /\ PassedToParseHotel = SubSeq(hs, 1, k)
                       /\ DOMAIN hotels' = DOMAIN hotels \cup {hs[k].content.title}
                       /\ MealIn(meal, hotels'[hs[k].content.title].meals)
                       /\ meals' = Put(meals, meal.identifier, meal)
                       /\ \A t \in DOMAIN hotels \ {hs[k].content.title} :
                              hotels'[t] = hotels[t]]_vars

\* the loop has handled a rate whose first hotel segment has no geolocation and
\* whose second has one: the second segment's Hotel and Meal are in the dataset
C12_Witness ==
    /\ pc = "rates"
    /\ calls = 1
    /\ Len(OrEmpty(The(raw.rates)[1].segments)) = 2
    /\ The(The(raw.rates)[1].segments)[1].type = "hotel"
    /\ The(The(raw.rates)[1].segments)[1].content.geolocation = None
    /\ "H1" \in DOMAIN hotels
    /\ hotels["H1"].hotel_rating = 35
    /\ hotels["H1"].meals = <<MealB>>

\* the rate the next iteration of the loop handles
NextRate == The(raw.rates)[calls + 1]

\* that rate's id has no transport-detail record or no product-content record: the
\* key is missing or its value is null
SideDataAbsent ==
    LET td  == The(raw.transport_details)
        apc == The(raw.all_product_content)
    IN  \/ NextRate.id \notin DOMAIN td
        \/ NextRate.id \notin DOMAIN apc
        \/ td[NextRate.id] = None
        \/ apc[NextRate.id] = None

\* the flight and bus segments of that rate's transport-detail record that carry
\* transport details
RouteSegmentsOfRate ==
    LET td == The(raw.transport_details)
    IN  IF NextRate.id \notin DOMAIN td THEN <<>>
        ELSE SelectSeq(OrEmpty(td[NextRate.id]),
                       LAMBDA s : s.type \in {"flight", "bus"} /\ s.transportDetails # None)

\* the key of the Route a segment's transport details describe
KeyOfSegment(s) ==
    LET d == The(s.transportDetails)
    IN  Key(Route(RoutePoint(d.from.code, d.from.city),
                  [i \in 1 .. Len(d.via) |-> RoutePoint(d.via[i].code, d.via[i].city)],
                  RoutePoint(d.to.code, d.to.city)))

\* C13 as stated: an iteration of the rate loop on a rate with absent side-data
\* raises nothing, stores the rate, and stores the Route of each of its flight and
\* bus segments.
C13_Original ==
    [][pc = "rates" /\ calls' = calls + 1 /\ SideDataAbsent =>
          /\ pc' = "rates"
          /\ NextRate.id \in DOMAIN rates'
          /\ \A i \in 1 .. Len(RouteSegmentsOfRate) :
                LET s == RouteSegmentsOfRate[i]
                IN  KeyOfSegment(s) \in
                       DOMAIN (IF s.type = "flight" THEN flight_routes' ELSE bus_routes')
      ]_vars

-----------------------------------------------------------------------------
(* The copy of a raw rate, scrape.py lines 337-343, on a store of objects        *)
(*                                                                               *)
(* heap maps an address to a dict or list: plain holds the items whose value is  *)
(* a string, a number or None, refs the items whose value is another object (a   *)
(* list's items are keyed "0", "1", ...).  Two names alias when they hold the    *)
(* same address.                                                                 *)

Object(plain, refs) == [plain |-> plain, refs |-> refs]

RECURSIVE ReachFrom(_, _)
\* the addresses reachable in h from those of S
ReachFrom(h, S) ==
    LET N == S \cup {h[x].refs[k] : <<x, k>> \in
                        UNION {{<<y, j>> : j \in DOMAIN h[y].refs} : y \in S}}
    IN  IF N = S THEN S ELSE ReachFrom(h, N)

\* the first address not in use
Fresh(h) == IF DOMAIN h = {} THEN 1 ELSE SetMax(DOMAIN h) + 1

\* a faulty variant: copy.copy(rate), a new dict that holds the same objects
ShallowCopy(h, a) ==
    [heap |-> Put(h, Fresh(h), h[a]), address |-> Fresh(h)]

\* pickle.loads(pickle.dumps(rate)): every object reachable from a is built anew,
\* with the references among them kept; the store afterwards and the copy's address
PickleRoundTrip(h, a) ==
    LET R    == ReachFrom(h, {a})
        f(x) == Fresh(h) + Cardinality({y \in R : y < x})
    IN  [heap |-> [x \in (DOMAIN h) \cup {f(y) : y \in R} |->
                      IF x \in DOMAIN h THEN h[x]
                      ELSE LET src == CHOOSE y \in R : f(y) = x
                           IN  Object(h[src].plain,
                                      [k \in DOMAIN h[src].refs |-> f(h[src].refs[k])])],
         address |-> f(a)]

\* d[key] = value, where value is None or Some(address)
SetItem(h, d, key, value) ==
    IF value = None
    THEN [h EXCEPT ![d].plain = Put(@, key, "None")]
    ELSE [h EXCEPT ![d].refs = Put(@, key, The(value))]

-----------------------------------------------------------------------------
(* SpecCopy: the rate loop of _parse_rates on raw rates held in the store *)

\* hotel segments of a stored raw rate
MaxCopySegments == 2

\* the addresses a raw rate may take: its dict, its segment list, and a dict and a
\* content dict per segment
Stride == 2 + 2 * MaxCopySegments

\* the key of a list's j-th item
IndexKey(j) == CASE j = 1 -> "0" [] j = 2 -> "1" [] j = 3 -> "2" [] OTHER -> "3"

\* the objects of the i-th raw rate, with id and n segments (n = -1: "segments" is None)
RateObjects(i, id, n) ==
    LET base == (i - 1) * Stride + 1
    IN  [x \in {base} \cup (IF n < 0 THEN {} ELSE (base + 1) .. (base + 1 + 2 * n)) |->
            IF x = base
            THEN IF n < 0
                 THEN Object([k \in {"id", "segments"} |-> IF k = "id" THEN id ELSE "None"],
                             EmptyMap)
                 ELSE Object([k \in {"id"} |-> id], [k \in {"segments"} |-> base + 1])
            ELSE IF x = base + 1
            THEN Object(EmptyMap,
                        [k \in {IndexKey(j) : j \in 1 .. n} |->
                            base + 2 * (CHOOSE j \in 1 .. n : IndexKey(j) = k)])
            ELSE IF (x - base) % 2 = 0
            THEN Object([k \in {"type"} |-> "hotel"], [k \in {"content"} |-> x + 1])
            ELSE Object([k \in {"title"} |-> "H1"], EmptyMap)]

\* the side records of a rate id: the list transport_details holds for it and the
\* dict all_product_content holds for it
SideBase == MaxRates * Stride + 1

SideObjects ==
    [x \in SideBase .. (SideBase + 3) |->
        IF x < SideBase + 2
        THEN Object(EmptyMap, EmptyMap)                         \* a list of segments
        ELSE Object([k \in {"title"} |-> "content"], EmptyMap)] \* a product content

RECURSIVE Merge(_)
\* the store that holds the objects of every store of the sequence
Merge(hs) ==
    IF hs = <<>> THEN EmptyMap
    ELSE LET rest == Merge(Tail(hs))
         IN  [x \in (DOMAIN Head(hs)) \cup (DOMAIN rest) |->
                 IF x \in DOMAIN Head(hs) THEN Head(hs)[x] ELSE rest[x]]

RateShapes == {"r1", "r2"} \X {-1, 1, MaxCopySegments}

RateShapeLists == UNION {[1 .. n -> RateShapes] : n \in 1 .. MaxRates}

InitCopy ==
    /\ pc = "rates"
    /\ \E shapes \in RateShapeLists, r2details \in {None, Some(SideBase + 1)},
          r2content \in {None, Some(SideBase + 3)} :
          /\ heap = Merge([i \in 1 .. Len(shapes) |->
                              RateObjects(i, shapes[i][1], shapes[i][2])]
                          \o <<SideObjects>>)
          /\ raw = [rates |-> [i \in 1 .. Len(shapes) |-> (i - 1) * Stride + 1],
                    transport_details |->
                        [id \in {"r1", "r2"} |->
                            IF id = "r1" THEN Some(SideBase) ELSE r2details],
                    all_product_content |->
                        [id \in {"r1", "r2"} |->
                            IF id = "r1" THEN Some(SideBase + 2) ELSE r2content]]
    /\ hist = Some(heap)
    /\ ScraperIdle
    /\ rates = EmptyMap
    /\ regions = None
    /\ section = NoSection
    /\ hotels = EmptyMap
    /\ countries = EmptyMap
    /\ airports = EmptyMap
    /\ flight_routes = EmptyMap
    /\ bus_stops = EmptyMap
    /\ bus_routes = EmptyMap
    /\ meals = EmptyMap
    /\ calls = 0

\* lines 338-343 of one iteration of "for rate in raw_rates"; the rest of the
\* iteration reads the rate and the side records and builds new entities from their
\* strings and numbers, so it leaves the store as it is
CopyRate ==
    /\ pc = "rates"
    /\ calls < Len(raw.rates)
    /\ calls' = calls + 1
    /\ LET rate == raw.rates[calls + 1]
           id   == heap[rate].plain["id"]
           out  == PickleRoundTrip(heap, rate)
           copied_rate == out.address
           detailed_segments == raw.transport_details[id]
           product_content == raw.all_product_content[id]
       IN  /\ rates' = Put(rates, id, copied_rate)
           /\ heap' = SetItem(SetItem(out.heap, copied_rate, "detailedSegments",
                                      detailed_segments),
                              copied_rate, "productContent", product_content)
    /\ UNCHANGED <<pc, section, regions, countries, airports, flight_routes, bus_stops,
                   bus_routes, hotels, meals, raw, hist>>
    /\ UNCHANGED scraper

NextCopy == CopyRate

SpecCopy == InitCopy /\ [][NextCopy]_vars

\* the keys of an object
Keys(o) == (DOMAIN o.plain) \cup (DOMAIN o.refs)

\* C10: for every raw rate processed, every object reachable from it is as it was
\* before the loop; detailedSegments and productContent are keys of the stored copy
\* and not of the raw rate; and no object reachable from a raw rate is reachable
\* from a stored copy.
C10_RawRateUntouched ==
    \A i \in 1 .. calls :
        LET rate == raw.rates[i]
            id   == heap[rate].plain["id"]
        IN  /\ \A x \in ReachFrom(The(hist), {rate}) : heap[x] = The(hist)[x]
            /\ Keys(heap[rate]) \cap {"detailedSegments", "productContent"} = {}
            /\ id \in DOMAIN rates
            /\ {"detailedSegments", "productContent"} \subseteq Keys(heap[rates[id]])
            /\ Keys(heap[rates[id]]) \ {"detailedSegments", "productContent"}
                  = Keys(The(hist)[rate])
            /\ \A j \in DOMAIN rates :
                  ReachFrom(heap, {rate}) \cap ReachFrom(heap, {rates[j]}) = {}

\* a rate with two segments was copied and the copy holds both side records
C10_Witness ==
    /\ calls >= 1
    /\ "r1" \in DOMAIN rates
    /\ {"segments", "detailedSegments", "productContent"} \subseteq DOMAIN heap[rates["r1"]].refs
    /\ Cardinality(ReachFrom(heap, {raw.rates[1]})) = 6
    /\ Cardinality(ReachFrom(heap, {rates["r1"]})) = 8

-----------------------------------------------------------------------------
(* Scraper._request, scrape.py lines 445-474 *)

\* try_count = 5
try_count == 5

\* the status codes a response may carry
Statuses == {200, 302, 404, 429, 500, 502, 503}

\* resp.raise_for_status() raises HTTPError for a client or server error status
RaisesForStatus(status_code) == 400 <= status_code /\ status_code < 600

\* a faulty variant: any error status is retried
ShouldRetryAnyError(n, status_code) == (n + 1) < try_count

\* (try_number + 1) < try_count and resp.status_code >= 500
ShouldRetry(n, status_code) == (n + 1) < try_count /\ status_code >= 500

\* the seconds of time.sleep(1 + try_number * 2)
Backoff(n) == 1 + n * 2

\* the dataset assembly is not running
AssemblyIdle ==
    /\ section = NoSection
    /\ regions = None
    /\ countries = EmptyMap
    /\ airports = EmptyMap
    /\ flight_routes = EmptyMap
    /\ bus_stops = EmptyMap
    /\ bus_routes = EmptyMap
    /\ hotels = EmptyMap
    /\ meals = EmptyMap
    /\ rates = EmptyMap
    /\ raw = EmptyMap
    /\ heap = EmptyMap
    /\ hist = None
    /\ calls = 0

\* a call of _request, about to make its first POST
InitRequest ==
    /\ pc = "post"
    /\ ScraperIdle
    /\ AssemblyIdle

\* an iteration of the for loop in which self._session.post raises (no response):
\* the exception leaves _request
PostRaises ==
    /\ pc = "post"
    /\ try_number < try_count
    /\ sent' = Append(sent, None)
    /\ pc' = "raised"
    /\ UNCHANGED <<try_number, resp, slept, fetched, rate_count, page, queries>>
    /\ UNCHANGED assembly

\* an iteration of the for loop in which the POST gets a response: return it,
\* sleep and go on to the next iteration, or re-raise the HTTPError
PostResponds ==
    /\ pc = "post"
    /\ try_number < try_count
    /\ \E status_code \in Statuses :
          /\ resp' = Some(status_code)
          /\ sent' = Append(sent, Some(status_code))
          /\ IF ~RaisesForStatus(status_code)
             THEN /\ pc' = "returned"                   \* break; return resp
                  /\ UNCHANGED <<try_number, slept>>
             ELSE IF ShouldRetry(try_number, status_code)
             THEN /\ slept' = Append(slept, Backoff(try_number))
                  /\ try_number' = try_number + 1       \* continue
                  /\ pc' = "post"
             ELSE /\ pc' = "raised"                     \* raise
                  /\ UNCHANGED <<try_number, slept>>
    /\ UNCHANGED <<fetched, rate_count, page, queries>>
    /\ UNCHANGED assembly

NextRequest == PostRaises \/ PostResponds

SpecRequest == InitRequest /\ [][NextRequest]_vars

\* the outcome of the latest POST
LastSent == sent[Len(sent)]

\* the outcome is a response with a status from lo to hi
StatusWithin(outcome, lo, hi) ==
    outcome # None /\ lo <= The(outcome) /\ The(outcome) <= hi

\* C17: _request makes at most 5 POSTs; every POST but the latest got a response
\* with a status of 500 or more; the sleeps made are 1, 3, 5, 7 seconds in this
\* order, one after each POST that is followed by another; it returns exactly when
\* the latest response carries no error status, and returns that response; it goes
\* on to another POST exactly when the latest response has a status of 500 or more
\* and fewer than 5 POSTs were made; it raises, with no further POST, on a 4xx
\* response, on a 5xx response to the 5th POST, and when the POST itself raises.
C17_BoundedRetry ==
    /\ Len(sent) <= 5
    /\ \A i \in 1 .. (Len(sent) - 1) : StatusWithin(sent[i], 500, 599)
    /\ slept = [i \in 1 .. Len(slept) |-> 2 * i - 1]
    /\ Len(slept) = IF pc = "post" THEN Len(sent) ELSE Len(sent) - 1
    /\ pc = "post" => /\ Len(sent) < 5
                      /\ Len(sent) > 0 => StatusWithin(LastSent, 500, 599)
    /\ pc = "returned" => /\ resp = LastSent
                          /\ resp # None
                          /\ ~StatusWithin(resp, 400, 599)
    /\ pc = "raised" => \/ LastSent = None
                        \/ StatusWithin(LastSent, 400, 499)
                        \/ StatusWithin(LastSent, 500, 599) /\ Len(sent) = 5

\* the 5th POST got a 503 after four retried responses: _request raised, having
\* slept 1, 3, 5 and 7 seconds
C17_Witness ==
    /\ pc = "raised"
    /\ Len(sent) = 5
    /\ LastSent = Some(503)
    /\ slept = <<1, 3, 5, 7>>

-----------------------------------------------------------------------------
(* Scraper._get_rates, scrape.py lines 491-514 *)

\* per_page = 100
per_page == 100

\* the largest ratesCount the server reports
MaxRateCount == 4

\* the most rates the server puts in one page
MaxPageRates == 3

\* a faulty variant: every query asks for the first page
QueryFirstPage(p) == [skip |-> 0, take |-> per_page]

\* the paging variables of the query: "skip": page * per_page, "take": per_page
QueryVariables(p) == [skip |-> p * per_page, take |-> per_page]

\* n rates of the page that starts at skip
PageRates(skip, n) == [i \in 1 .. n |-> [position |-> skip + i]]

\* a call of _get_rates: rates = [], rate_count = 1, page = 0
InitGetRates ==
    /\ pc = "loop"
    /\ ScraperIdle
    /\ AssemblyIdle

\* an iteration of the while loop whose self._gql call raises (a request error, or
\* a response without the data): the exception leaves _get_rates
GetRatesQueryRaises ==
    /\ pc = "loop"
    /\ Len(fetched) < rate_count
    /\ queries' = Append(queries, QueryVariables(page))
    /\ pc' = "raised"
    /\ UNCHANGED <<try_number, resp, sent, slept, fetched, rate_count, page>>
    /\ UNCHANGED assembly

\* an iteration of the while loop whose query is answered with a ratesCount and a
\* list of rates
GetRatesPage ==
    /\ pc = "loop"
    /\ Len(fetched) < rate_count
    /\ queries' = Append(queries, QueryVariables(page))
    /\ \E ratesCount \in 0 .. MaxRateCount, n \in 0 .. MaxPageRates :
          LET current_page_rates == PageRates(QueryVariables(page).skip, n)
          IN  /\ rate_count' = ratesCount
              /\ IF current_page_rates = <<>>
                 THEN /\ pc' = "returned"               \* break; return rates
                      /\ UNCHANGED <<fetched, page>>
                 ELSE /\ fetched' = fetched \o current_page_rates
                      /\ page' = page + 1
                      /\ pc' = "loop"
    /\ UNCHANGED <<try_number, resp, sent, slept>>
    /\ UNCHANGED assembly

\* the while condition is false: return rates
GetRatesReturn ==
    /\ pc = "loop"
    /\ ~(Len(fetched) < rate_count)
    /\ pc' = "returned"
    /\ UNCHANGED scraper
    /\ UNCHANGED assembly

NextGetRates == GetRatesQueryRaises \/ GetRatesPage \/ GetRatesReturn

\* the code is sequential: a step that can be taken is taken
SpecGetRates == InitGetRates /\ [][NextGetRates]_vars /\ WF_vars(NextGetRates)

\* C18: every iteration of the loop (a step that makes a query) either ends
\* _get_rates or leaves more rates collected than before; once the rates collected
\* are as many as the ratesCount last reported the next step returns them without
\* another query; the n-th query (n = 0, 1, ...) has skip = 100 * n and take = 100;
\* and _get_rates comes to an end.
C18_GetRatesTerminates ==
    /\ [][queries' # queries =>
             (pc' \in {"returned", "raised"} \/ Len(fetched') > Len(fetched))]_vars
    /\ [][(pc = "loop" /\ Len(fetched) >= rate_count) =>
             (pc' = "returned" /\ queries' = queries /\ fetched' = fetched)]_vars
    /\ [](\A n \in 0 .. (Len(queries) - 1) :
             queries[n + 1] = [skip |-> 100 * n, take |-> 100])
    /\ <>(pc \in {"returned", "raised"})

\* _get_rates returned after three queries, the third with skip 200, having
\* collected as many rates as the server last reported
C18_Witness ==
    /\ pc = "returned"
    /\ Len(queries) = 3
    /\ queries[3].skip = 200
    /\ rate_count > 0
    /\ Len(fetched) >= rate_count
    /\ fetched[Len(fetched)].position > 200

====
